---- MODULE Spec2Model ----
\* Table extraction pipeline of Modules/TableExtraction.py:
\*   run_pipeline -> extract_layout (parse, repair, parse again)
\*                -> save_to_jsonl_with_strong_table_extraction
\*                   (rasterize, per page, per table: detect cells, group
\*                    them into rows, OCR, append to tables.jsonl; then one
\*                    line in tables_summary.jsonl).
\* Spec        : the batch driver and its per-document control flow.
\* SpecCluster : the cell detection and row grouping of one table crop.
EXTENDS Integers, Sequences, FiniteSets, TLC

\* ---------------------------------------------------------------- bounds
MaxDocs == 2
MaxPages == 2
MaxElements == 2
MaxBoxes == 3

\* ------------------------------------------------------ program constants
\* cv2.contourArea(c) > 200
MinArea == 200
\* abs(b[1] - current_row[-1][1]) < 20
RowTolerance == 20
\* getattr(el.metadata, "page_number", None): an absent page number
Absent == -1

VARIABLES
    \* run_pipeline
    pc, n_files, doc,
    \* extract_layout
    lstate, result, calls, elements,
    \* save_to_jsonl_with_strong_table_extraction
    rasterized, n_pages, page_index, pages_seen, page_tables, table_index,
    table_records, pages_with_tables,
    \* the two output files
    tables_jsonl, summary_jsonl,
    \* one table crop: findContours, area filter, row grouping
    cpc, contours, cell_boxes, k, rows, current_row

pipeVars == <<pc, n_files, doc, lstate, result, calls, elements, rasterized,
              n_pages, page_index, pages_seen, page_tables, table_index,
              table_records, pages_with_tables, tables_jsonl, summary_jsonl>>
clusterVars == <<cpc, contours, cell_boxes, k, rows, current_row>>
vars == <<pipeVars, clusterVars>>

\* ------------------------------------------------------------ helpers
Abs(n) == IF n < 0 THEN 0 - n ELSE n

Last(s) == s[Len(s)]

SeqsUpTo(S, n) == UNION {[1..m -> S] : m \in 0..n}

\* A contour as cv2 reports it: its bounding rectangle (x, y, w, h) and its
\* area.  box is indexed as the Python tuple is, shifted by one: box[2] is y.
Contour(x, y, w, h, a) == [box |-> <<x, y, w, h>>, area |-> a]

\* Contours a table crop may hold.  The y values make differences of
\* 19, 20 and 21 and the chain 0, 19, 21; one box shares (x, y) with another
\* and differs in width; one contour sits on the area threshold.
Contours ==
    {Contour(x, y, 30, 15, 201) : x \in {0, 40}, y \in {0, 19, 20, 21}}
        \cup {Contour(0, 0, 31, 15, 450), Contour(0, 0, 30, 15, 200)}

PassesAreaFilterInclusive(c) == c.area >= MinArea

\* [cv2.boundingRect(c) for c in contours if cv2.contourArea(c) > 200]
PassesAreaFilter(c) == c.area > MinArea

RECURSIVE CellBoxes(_)
CellBoxes(cs) ==
    IF cs = <<>> THEN <<>>
    ELSE IF PassesAreaFilter(Head(cs))
         THEN <<Head(cs).box>> \o CellBoxes(Tail(cs))
         ELSE CellBoxes(Tail(cs))

\* key=lambda b: (b[1], b[0])
KeyYX(b) == <<b[2], b[1]>>
\* key=lambda x: x[0]
KeyX(b) == <<b[1]>>

\* Python's comparison of two key tuples of equal length
RECURSIVE TupleLess(_, _)
TupleLess(a, b) ==
    IF a = <<>> THEN FALSE
    ELSE IF Head(a) # Head(b) THEN Head(a) < Head(b)
         ELSE TupleLess(Tail(a), Tail(b))

\* sorted() is stable: an element is placed after every element already
\* there whose key is not greater than its own.
RECURSIVE InsertByYX(_, _)
InsertByYX(b, s) ==
    IF s = <<>> THEN <<b>>
    ELSE IF TupleLess(KeyYX(b), KeyYX(Head(s))) THEN <<b>> \o s
         ELSE <<Head(s)>> \o InsertByYX(b, Tail(s))

Unsorted(s) == s

RECURSIVE SortByYX(_)
SortByYX(s) ==
    IF s = <<>> THEN <<>>
    ELSE InsertByYX(Last(s), SortByYX(SubSeq(s, 1, Len(s) - 1)))

RECURSIVE InsertByX(_, _)
InsertByX(b, s) ==
    IF s = <<>> THEN <<b>>
    ELSE IF TupleLess(KeyX(b), KeyX(Head(s))) THEN <<b>> \o s
         ELSE <<Head(s)>> \o InsertByX(b, Tail(s))

RECURSIVE SortByX(_)
SortByX(s) ==
    IF s = <<>> THEN <<>>
    ELSE InsertByX(Last(s), SortByX(SubSeq(s, 1, Len(s) - 1)))

\* --------------------------------------------------------- row grouping
JoinsRowAnchor(b, row) == Abs(b[2] - row[1][2]) < RowTolerance

JoinsRowInclusive(b, row) == Abs(b[2] - Last(row)[2]) <= RowTolerance

\* if abs(b[1] - current_row[-1][1]) < 20
JoinsRow(b, row) == Abs(b[2] - Last(row)[2]) < RowTolerance

\* One iteration of "for b in cell_boxes[1:]"
SweepOne(b, rs, row) ==
    IF JoinsRow(b, row)
    THEN [rows |-> rs, current_row |-> Append(row, b)]
    ELSE [rows |-> Append(rs, SortByX(row)), current_row |-> <<b>>]

RECURSIVE SweepFrom(_, _, _, _)
SweepFrom(boxes, i, rs, row) ==
    IF i > Len(boxes) THEN Append(rs, SortByX(row))
    ELSE LET s == SweepOne(boxes[i], rs, row)
         IN SweepFrom(boxes, i + 1, s.rows, s.current_row)

\* The whole grouping of a non-empty list of cell boxes
GroupRows(boxes) ==
    LET sorted == SortByYX(boxes)
    IN SweepFrom(sorted, 2, <<>>, <<sorted[1]>>)

MaxLenFirst(rs) == IF rs = <<>> THEN 0 ELSE Len(rs[1])

RECURSIVE MaxLen(_)
MaxLen(rs) ==
    IF rs = <<>> THEN 0
    ELSE LET m == MaxLen(Tail(rs))
         IN IF Len(Head(rs)) > m THEN Len(Head(rs)) ELSE m

\* n_rows, n_cols = len(rows), max(len(r) for r in rows)
NRows(rs) == Len(rs)
NCols(rs) == MaxLen(rs)

\* ------------------------------------------- SpecCluster: one table crop
ClusterIdle ==
    /\ cpc = "idle" /\ contours = <<>> /\ cell_boxes = <<>> /\ k = 0
    /\ rows = <<>> /\ current_row = <<>>

PipeIdle ==
    /\ pc = "idle" /\ n_files = 0 /\ doc = 0
    /\ lstate = "Initial" /\ result = "none" /\ calls = <<>>
    /\ elements = <<>> /\ rasterized = "no" /\ n_pages = 0
    /\ page_index = 0 /\ pages_seen = {} /\ page_tables = <<>>
    /\ table_index = 0 /\ table_records = <<>> /\ pages_with_tables = <<>>
    /\ tables_jsonl = <<>> /\ summary_jsonl = <<>>

InitCluster ==
    /\ PipeIdle
    /\ cpc = "contours"
    /\ contours \in SeqsUpTo(Contours, MaxBoxes)
    /\ cell_boxes = <<>> /\ k = 0 /\ rows = <<>> /\ current_row = <<>>

\* The area filter finds nothing: raise ValueError("No cells found ...")
NoCellsFound ==
    /\ cpc = "contours"
    /\ CellBoxes(contours) = <<>>
    /\ cpc' = "nocells"
    /\ UNCHANGED <<contours, cell_boxes, k, rows, current_row>>
    /\ UNCHANGED pipeVars

\* The area filter, the sort by (y, x) and the start of the first row
FindCells ==
    /\ cpc = "contours"
    /\ CellBoxes(contours) # <<>>
    /\ cell_boxes' = SortByYX(CellBoxes(contours))
    /\ rows' = <<>>
    /\ current_row' = <<cell_boxes'[1]>>
    /\ k' = 2
    /\ cpc' = "sweep"
    /\ UNCHANGED contours
    /\ UNCHANGED pipeVars

\* One iteration of the sweep over cell_boxes[1:]
SweepStep ==
    /\ cpc = "sweep"
    /\ k <= Len(cell_boxes)
    /\ LET s == SweepOne(cell_boxes[k], rows, current_row)
       IN /\ rows' = s.rows
          /\ current_row' = s.current_row
    /\ k' = k + 1
    /\ UNCHANGED <<cpc, contours, cell_boxes>>
    /\ UNCHANGED pipeVars

CloseLastRowDropped ==
    /\ cpc = "sweep"
    /\ k > Len(cell_boxes)
    /\ cpc' = "grid"
    /\ UNCHANGED <<contours, cell_boxes, k, rows, current_row>>
    /\ UNCHANGED pipeVars

\* rows.append(sorted(current_row, key=lambda x: x[0])) after the loop
CloseLastRow ==
    /\ cpc = "sweep"
    /\ k > Len(cell_boxes)
    /\ rows' = Append(rows, SortByX(current_row))
    /\ cpc' = "grid"
    /\ UNCHANGED <<contours, cell_boxes, k, current_row>>
    /\ UNCHANGED pipeVars

NextCluster == NoCellsFound \/ FindCells \/ SweepStep \/ CloseLastRow

SpecCluster == InitCluster /\ [][NextCluster]_vars

\* ----------------------------------------------- layout elements (input)
\* An element of the list partition_pdf returns: its category, the
\* page_number of its metadata (Absent when the attribute is missing) and
\* whether its metadata carries coordinates with points.
Element(c, p, xy) == [category |-> c, page_number |-> p, coords |-> xy]

ElementKinds ==
    {Element("Table", p, TRUE) : p \in {Absent, 0, 1, 2}}
        \cup {Element("Table", 1, FALSE), Element("Title", 1, TRUE)}

\* str.lower() on the categories that occur
Lower(c) ==
    CASE c = "Table" -> "table"
      [] c = "Title" -> "title"

\* getattr(el, "category", "").lower() == "table"
\*   and getattr(el.metadata, "page_number", None) == page_index + 1
OnPage(el, p) == Lower(el.category) = "table" /\ el.page_number = p + 1

\* Layout_Analysis.process_pdf, for its own block records:
\*   page_number = el.metadata.page_number if el.metadata.page_number else 0
\*   "page_index": page_number - 1 if page_number else 0
LayoutPageIndex(p) == IF p = Absent \/ p = 0 THEN 0 ELSE p - 1

RECURSIVE PageTables(_, _)
PageTables(els, p) ==
    IF els = <<>> THEN <<>>
    ELSE IF OnPage(Head(els), p)
         THEN <<Head(els)>> \o PageTables(Tail(els), p)
         ELSE PageTables(Tail(els), p)

\* What the page bitmap holds inside a table's bounding box: the contours
\* findContours reports there, and whether pytesseract reads its cells or
\* raises.
Crop(cs, ocr) == [contours |-> cs, ocr_ok |-> ocr]

\* nothing but noise; one cell and noise; one cell that OCR chokes on
NoCrop == Crop(<<Contour(0, 0, 30, 15, 200)>>, TRUE)

TableCrops ==
    { NoCrop,
      Crop(<<Contour(0, 0, 30, 15, 200), Contour(0, 21, 30, 15, 201)>>, TRUE),
      Crop(<<Contour(0, 0, 30, 15, 201)>>, FALSE) }

\* The tables of a page, each with the crop the page bitmap gives it
CropsFor(tabs) ==
    {cr \in [1..Len(tabs) -> TableCrops] :
        \A i \in 1..Len(tabs) : ~tabs[i].coords => cr[i] = NoCrop}

\* ------------------------------------------------------------- records
\* pytesseract.image_to_string(...).strip() for every box of every row
CellsText(rs) == [i \in 1..Len(rs) |-> [j \in 1..Len(rs[i]) |-> "text"]]

TableRecordPageAsIndex(d, p, t, rs) ==
    [doc_id |-> d, page_index |-> p, table_index |-> p,
     n_rows |-> NRows(rs), n_cols |-> NCols(rs), cells |-> CellsText(rs)]

\* record = {"doc_id": ..., "page_index": ..., "table_index": ..., ...}
TableRecord(d, p, t, rs) ==
    [doc_id |-> d, page_index |-> p, table_index |-> t,
     n_rows |-> NRows(rs), n_cols |-> NCols(rs), cells |-> CellsText(rs)]

SeqToSet(s) == {s[i] : i \in 1..Len(s)}

RECURSIVE SortedSeq(_)
SortedSeq(S) ==
    IF S = {} THEN <<>>
    ELSE LET m == CHOOSE x \in S : \A y \in S : x <= y
         IN <<m>> \o SortedSeq(S \ {m})

SummaryRecordNoDedup(d, recs, pwt) ==
    [doc_id |-> d, n_tables |-> Len(recs), pages_with_tables |-> pwt]

\* summary_record = {"doc_id": ..., "n_tables": len(table_records),
\*                   "pages_with_tables": sorted(list(set(pages_with_tables)))}
SummaryRecord(d, recs, pwt) ==
    [doc_id |-> d, n_tables |-> Len(recs),
     pages_with_tables |-> SortedSeq(SeqToSet(pwt))]

\* ------------------------------------------------- Spec: run_pipeline
Call(op, target, ok) == [op |-> op, target |-> target, ok |-> ok]

Outcome(ok) == IF ok THEN "ok" ELSE "error"

saveVars == <<rasterized, n_pages, page_index, pages_seen, page_tables,
              table_index, table_records, pages_with_tables>>
fileVars == <<tables_jsonl, summary_jsonl>>

Init ==
    /\ ClusterIdle
    /\ pc = "start"
    /\ n_files \in 0..MaxDocs
    /\ doc = 0
    /\ lstate = "Initial" /\ result = "none" /\ calls = <<>>
    /\ elements = <<>> /\ rasterized = "no" /\ n_pages = 0
    /\ page_index = 0 /\ pages_seen = {} /\ page_tables = <<>>
    /\ table_index = 0 /\ table_records = <<>> /\ pages_with_tables = <<>>
    /\ tables_jsonl = <<>> /\ summary_jsonl = <<>>

\* pdf_files = [...]; if not pdf_files: warning, return
ListFiles ==
    /\ pc = "start"
    /\ pc' = IF n_files = 0 THEN "done" ELSE "doc"
    /\ UNCHANGED <<n_files, doc, lstate, result, calls, elements>>
    /\ UNCHANGED <<saveVars, fileVars, clusterVars>>

\* for pdf_file in pdf_files: doc_id = str(uuid.uuid4())
NextDoc ==
    /\ pc = "doc"
    /\ doc < n_files
    /\ doc' = doc + 1
    /\ pc' = "layout"
    /\ lstate' = "Initial" /\ result' = "none" /\ calls' = <<>>
    /\ elements' = <<>> /\ rasterized' = "no" /\ n_pages' = 0
    /\ page_index' = 0 /\ pages_seen' = {} /\ page_tables' = <<>>
    /\ table_index' = 0 /\ table_records' = <<>> /\ pages_with_tables' = <<>>
    /\ UNCHANGED <<n_files, fileVars, clusterVars>>

\* the loop is over: "Pipeline completed successfully!"
Finish ==
    /\ pc = "doc"
    /\ doc = n_files
    /\ pc' = "done"
    /\ UNCHANGED <<n_files, doc, lstate, result, calls, elements>>
    /\ UNCHANGED <<saveVars, fileVars, clusterVars>>

\* ---- extract_layout
\* try: partition_pdf(filename=pdf_path, ...)
ParseOriginal ==
    /\ pc = "layout" /\ lstate = "Initial"
    /\ \E ok \in BOOLEAN :
        /\ calls' = Append(calls, Call("parse", "original", ok))
        /\ result' = Outcome(ok)
    /\ lstate' = "ParseAttempted"
    /\ UNCHANGED <<pc, n_files, doc, elements>>
    /\ UNCHANGED <<saveVars, fileVars, clusterVars>>

\* return partition_pdf(...): the first parse succeeded
ParseSucceeded ==
    /\ pc = "layout" /\ lstate = "ParseAttempted" /\ result = "ok"
    /\ elements' \in SeqsUpTo(ElementKinds, MaxElements)
    /\ lstate' = "Success"
    /\ UNCHANGED <<pc, n_files, doc, result, calls>>
    /\ UNCHANGED <<saveVars, fileVars, clusterVars>>

\* except: repaired := repair_pdf(pdf_path, fixed_pdf)
AttemptRepair ==
    /\ pc = "layout" /\ lstate = "ParseAttempted" /\ result = "error"
    /\ \E ok \in BOOLEAN :
        /\ calls' = Append(calls, Call("repair", "original", ok))
        /\ result' = Outcome(ok)
    /\ lstate' = "RepairAttempted"
    /\ UNCHANGED <<pc, n_files, doc, elements>>
    /\ UNCHANGED <<saveVars, fileVars, clusterVars>>

\* repair_pdf returned None: return []
RepairFailed ==
    /\ pc = "layout" /\ lstate = "RepairAttempted" /\ result = "error"
    /\ lstate' = "Failed"
    /\ elements' = <<>>
    /\ UNCHANGED <<pc, n_files, doc, result, calls>>
    /\ UNCHANGED <<saveVars, fileVars, clusterVars>>

ParseRepairedRetrying ==
    /\ pc = "layout" /\ lstate = "RepairAttempted" /\ result = "ok"
    /\ \E ok \in BOOLEAN :
        /\ calls' = Append(calls, Call("parse", "repaired", ok))
        /\ IF ok
           THEN /\ elements' \in SeqsUpTo(ElementKinds, MaxElements)
                /\ lstate' = "Success"
           ELSE /\ elements' = <<>>
                /\ lstate' = "RepairAttempted"
    /\ UNCHANGED <<pc, n_files, doc, result>>
    /\ UNCHANGED <<saveVars, fileVars, clusterVars>>

ParseRepairedOnOriginal ==
    /\ pc = "layout" /\ lstate = "RepairAttempted" /\ result = "ok"
    /\ \E ok \in BOOLEAN :
        /\ calls' = Append(calls, Call("parse", "original", ok))
        /\ IF ok
           THEN /\ elements' \in SeqsUpTo(ElementKinds, MaxElements)
                /\ lstate' = "Success"
           ELSE /\ elements' = <<>>
                /\ lstate' = "Failed"
    /\ UNCHANGED <<pc, n_files, doc, result>>
    /\ UNCHANGED <<saveVars, fileVars, clusterVars>>

\* try: return partition_pdf(filename=repaired, ...)
\* except: "Failed even after repair"; return []
ParseRepaired ==
    /\ pc = "layout" /\ lstate = "RepairAttempted" /\ result = "ok"
    /\ \E ok \in BOOLEAN :
        /\ calls' = Append(calls, Call("parse", "repaired", ok))
        /\ IF ok
           THEN /\ elements' \in SeqsUpTo(ElementKinds, MaxElements)
                /\ lstate' = "Success"
           ELSE /\ elements' = <<>>
                /\ lstate' = "Failed"
    /\ UNCHANGED <<pc, n_files, doc, result>>
    /\ UNCHANGED <<saveVars, fileVars, clusterVars>>

\* extract_layout has returned; run_pipeline goes on to call
\* save_to_jsonl_with_strong_table_extraction with whatever it returned.
CallSave ==
    /\ pc = "layout" /\ lstate \in {"Success", "Failed"}
    /\ pc' = "raster"
    /\ result' = "none"
    /\ calls' = <<>>
    /\ UNCHANGED <<n_files, doc, lstate, elements>>
    /\ UNCHANGED <<saveVars, fileVars, clusterVars>>

\* ---- save_to_jsonl_with_strong_table_extraction
\* On return its locals, and the elements it was given, are gone.
ReturnFromSave ==
    /\ pc' = "doc"
    /\ elements' = <<>>
    /\ n_pages' = 0 /\ page_index' = 0 /\ pages_seen' = {}
    /\ page_tables' = <<>> /\ table_index' = 0
    /\ table_records' = <<>> /\ pages_with_tables' = <<>>

\* try: pages = convert_from_path(pdf_path, dpi=DPI)
\* except: "Could not read PDF pages"; return
Rasterize ==
    /\ pc = "raster"
    /\ \E ok \in BOOLEAN, n \in 1..MaxPages :
        IF ok
        THEN /\ rasterized' = "ok"
             /\ n_pages' = n
             /\ pc' = "page"
             /\ page_index' = 0
             /\ table_records' = <<>>
             /\ pages_with_tables' = <<>>
             /\ UNCHANGED <<elements, pages_seen, page_tables, table_index>>
        ELSE /\ rasterized' = "error"
             /\ ReturnFromSave
    /\ UNCHANGED <<n_files, doc, lstate, result, calls>>
    /\ UNCHANGED <<fileVars, clusterVars>>

\* page_tables and table_index are not read again before the next page
\* assigns them.
LeaveTableLoop ==
    /\ page_tables' = <<>>
    /\ table_index' = 0

\* except Exception at page level: the error is logged and the page loop
\* goes on with the next page.
AfterPageErrorStops == n_pages

AfterPageError == page_index + 1

\* np.array / cvtColor / the page_tables filter raises
PageFails ==
    /\ pc = "page"
    /\ page_index < n_pages
    /\ pages_seen' = pages_seen \cup {page_index}
    /\ page_index' = AfterPageError
    /\ UNCHANGED <<pc, n_files, doc, lstate, result, calls, elements>>
    /\ UNCHANGED <<rasterized, n_pages, page_tables, table_index,
                   table_records, pages_with_tables, fileVars, clusterVars>>

\* page_gray and page_tables are computed; the table loop starts
BeginPage ==
    /\ pc = "page"
    /\ page_index < n_pages
    /\ pages_seen' = pages_seen \cup {page_index}
    /\ LET tabs == PageTables(elements, page_index)
       IN \E cr \in CropsFor(tabs) :
            page_tables' = [i \in 1..Len(tabs) |->
                               [coords |-> tabs[i].coords, crop |-> cr[i]]]
    /\ table_index' = 0
    /\ pc' = "table"
    /\ UNCHANGED <<n_files, doc, lstate, result, calls, elements>>
    /\ UNCHANGED <<rasterized, n_pages, page_index, table_records,
                   pages_with_tables, fileVars, clusterVars>>

CurrentTable == page_tables[table_index + 1]

InTableLoop == pc = "table" /\ table_index < Len(page_tables)

\* if not coords or not coords.points: continue
TableNoCoords ==
    /\ InTableLoop
    /\ ~CurrentTable.coords
    /\ table_index' = table_index + 1
    /\ UNCHANGED <<pc, n_files, doc, lstate, result, calls, elements>>
    /\ UNCHANGED <<rasterized, n_pages, page_index, pages_seen, page_tables,
                   table_records, pages_with_tables, fileVars, clusterVars>>

\* if not cell_boxes: raise ValueError(...), caught by the page's except
TableNoCells ==
    /\ InTableLoop
    /\ CurrentTable.coords
    /\ CellBoxes(CurrentTable.crop.contours) = <<>>
    /\ pc' = "page"
    /\ page_index' = AfterPageError
    /\ LeaveTableLoop
    /\ UNCHANGED <<n_files, doc, lstate, result, calls, elements>>
    /\ UNCHANGED <<rasterized, n_pages, pages_seen, table_records,
                   pages_with_tables, fileVars, clusterVars>>

\* pytesseract.image_to_string raises, caught by the page's except
TableOcrFails ==
    /\ InTableLoop
    /\ CurrentTable.coords
    /\ CellBoxes(CurrentTable.crop.contours) # <<>>
    /\ ~CurrentTable.crop.ocr_ok
    /\ pc' = "page"
    /\ page_index' = AfterPageError
    /\ LeaveTableLoop
    /\ UNCHANGED <<n_files, doc, lstate, result, calls, elements>>
    /\ UNCHANGED <<rasterized, n_pages, pages_seen, table_records,
                   pages_with_tables, fileVars, clusterVars>>

\* rows are grouped, the cells read, the record appended to tables.jsonl,
\* to table_records, and its page to pages_with_tables
TableWritten ==
    /\ InTableLoop
    /\ CurrentTable.coords
    /\ CellBoxes(CurrentTable.crop.contours) # <<>>
    /\ CurrentTable.crop.ocr_ok
    /\ LET record == TableRecord(doc, page_index, table_index,
                         GroupRows(CellBoxes(CurrentTable.crop.contours)))
       IN /\ tables_jsonl' = Append(tables_jsonl, record)
          /\ table_records' = Append(table_records, record)
    /\ pages_with_tables' = Append(pages_with_tables, page_index)
    /\ table_index' = table_index + 1
    /\ UNCHANGED <<pc, n_files, doc, lstate, result, calls, elements>>
    /\ UNCHANGED <<rasterized, n_pages, page_index, pages_seen, page_tables,
                   summary_jsonl, clusterVars>>

\* the table loop of the page is exhausted
EndPage ==
    /\ pc = "table"
    /\ table_index = Len(page_tables)
    /\ pc' = "page"
    /\ page_index' = page_index + 1
    /\ LeaveTableLoop
    /\ UNCHANGED <<n_files, doc, lstate, result, calls, elements>>
    /\ UNCHANGED <<rasterized, n_pages, pages_seen, table_records,
                   pages_with_tables, fileVars, clusterVars>>

SummaryLinesIfAny(d, recs, pwt) ==
    IF recs = <<>> THEN <<>> ELSE <<SummaryRecord(d, recs, pwt)>>

\* with open(SUMMARY_JSONL, "a") as f: f.write(json.dumps(summary_record))
SummaryLines(d, recs, pwt) == <<SummaryRecord(d, recs, pwt)>>

\* the page loop is exhausted: the summary is written and the call returns
WriteSummary ==
    /\ pc = "page"
    /\ page_index >= n_pages
    /\ summary_jsonl' =
           summary_jsonl \o SummaryLines(doc, table_records, pages_with_tables)
    /\ ReturnFromSave
    /\ UNCHANGED <<n_files, doc, lstate, result, calls, rasterized>>
    /\ UNCHANGED <<tables_jsonl, clusterVars>>

Next ==
    \/ ListFiles \/ NextDoc \/ Finish
    \/ ParseOriginal \/ ParseSucceeded \/ AttemptRepair \/ RepairFailed
    \/ ParseRepaired \/ CallSave
    \/ Rasterize \/ PageFails \/ BeginPage
    \/ TableNoCoords \/ TableNoCells \/ TableOcrFails \/ TableWritten
    \/ EndPage \/ WriteSummary

Spec == Init /\ [][Next]_vars

\* ====================================================== properties: Spec
ParseCalls == Cardinality({i \in 1..Len(calls) : calls[i].op = "parse"})
RepairCalls == Cardinality({i \in 1..Len(calls) : calls[i].op = "repair"})
FailedParses ==
    Cardinality({i \in 1..Len(calls) : calls[i].op = "parse" /\ ~calls[i].ok})

RecordsOf(d) == {i \in 1..Len(tables_jsonl) : tables_jsonl[i].doc_id = d}
SummariesOf(d) == {i \in 1..Len(summary_jsonl) : summary_jsonl[i].doc_id = d}

AtNoCellsTable ==
    /\ InTableLoop
    /\ CurrentTable.coords
    /\ CellBoxes(CurrentTable.crop.contours) = <<>>

\* a later table of the page has coordinates, cells and readable text
LaterTableHasCells ==
    \E j \in (table_index + 2)..Len(page_tables) :
        /\ page_tables[j].coords
        /\ CellBoxes(page_tables[j].crop.contours) # <<>>
        /\ page_tables[j].crop.ocr_ok

\* C1: when a table of a page has no candidate cell after the area filter,
\* no record is written for it, and when a later table of the same page
\* has cells the table loop goes on with the next table of that page, so
\* that the later table still gets its record.
C1_NoCellsSkipsOnlyThatTable ==
    [][AtNoCellsTable =>
          /\ tables_jsonl' = tables_jsonl
          /\ LaterTableHasCells =>
                /\ pc' = "table"
                /\ page_index' = page_index
                /\ table_index' = table_index + 1
                /\ page_tables' = page_tables]_vars

\* C2: per document the layout parse is invoked at most twice and the
\* repair at most once; when the first parse and the parse of the repaired
\* copy both fail there was exactly one repair and the outcome is the
\* terminal failure with an empty element list; nothing is parsed or
\* repaired outside extract_layout.
C2_RepairCycleBound ==
    /\ ParseCalls <= 2
    /\ RepairCalls <= 1
    /\ FailedParses = 2 =>
          /\ RepairCalls = 1
          /\ ParseCalls = 2
          /\ lstate = "Failed"
          /\ elements = <<>>
    /\ pc # "layout" => calls = <<>>

C2_BothParsesFailed ==
    /\ lstate = "Failed"
    /\ calls = <<Call("parse", "original", FALSE),
                 Call("repair", "original", TRUE),
                 Call("parse", "repaired", FALSE)>>

\* C3: extract_layout moves Initial -> ParseAttempted -> Success or
\* RepairAttempted -> Success or Failed.  The first parse is of the original
\* file; Success straight after it involves no repair; the repair follows a
\* failed first parse only; a failed repair ends in Failed with no second
\* parse; the second parse follows a successful repair only and reads the
\* repaired copy; Success and Failed are left only by the next document's
\* fresh invocation; no parse or repair happens outside these transitions.
C3_RepairStateMachine ==
    [][/\ lstate' # lstate =>
            \/ /\ lstate = "Initial" /\ lstate' = "ParseAttempted"
               /\ calls = <<>>
               /\ \E ok \in BOOLEAN :
                     calls' = <<Call("parse", "original", ok)>>
            \/ /\ lstate = "ParseAttempted" /\ lstate' = "Success"
               /\ calls = <<Call("parse", "original", TRUE)>>
               /\ calls' = calls
            \/ /\ lstate = "ParseAttempted" /\ lstate' = "RepairAttempted"
               /\ calls = <<Call("parse", "original", FALSE)>>
               /\ \E ok \in BOOLEAN :
                     calls' = Append(calls, Call("repair", "original", ok))
            \/ /\ lstate = "RepairAttempted" /\ lstate' = "Failed"
               /\ Len(calls) = 2
               /\ \/ ~calls[2].ok /\ calls' = calls
                  \/ /\ calls[2].ok
                     /\ calls' = Append(calls, Call("parse", "repaired", FALSE))
            \/ /\ lstate = "RepairAttempted" /\ lstate' = "Success"
               /\ Len(calls) = 2 /\ calls[2].ok
               /\ calls' = Append(calls, Call("parse", "repaired", TRUE))
            \/ /\ lstate \in {"Success", "Failed"} /\ lstate' = "Initial"
               /\ doc' = doc + 1
       /\ Len(calls') > Len(calls) => lstate' # lstate]_vars

C3_SuccessAfterRepair ==
    /\ lstate = "Success"
    /\ calls = <<Call("parse", "original", FALSE),
                 Call("repair", "original", TRUE),
                 Call("parse", "repaired", TRUE)>>

\* C4: a document whose layout extraction ended in Failed is skipped: no
\* rasterization, no table extraction, no TableRecord and no
\* DocumentSummary for it.
C4_FailedDocumentSkipped ==
    lstate = "Failed" =>
        /\ rasterized = "no"
        /\ pc \notin {"page", "table"}
        /\ RecordsOf(doc) = {}
        /\ SummariesOf(doc) = {}

\* C5: the batch is never aborted.  Every page up to the current one has
\* been entered, whatever failed on the pages before it, and the summary is
\* written only when all pages were; a document whose rasterization failed
\* has no record and no summary; the run is complete only when every PDF of
\* the batch was taken up, and a document is left only after the table
\* extraction was called for it.
C5_BatchNeverAborts ==
    /\ pc = "page" => pages_seen = 0..(page_index - 1)
    /\ pc = "table" => pages_seen = 0..page_index
    /\ (pc = "page" /\ page_index >= n_pages) => pages_seen = 0..(n_pages - 1)
    /\ rasterized = "error" => RecordsOf(doc) = {} /\ SummariesOf(doc) = {}
    /\ (pc = "doc" /\ doc >= 1) => rasterized \in {"ok", "error"}
    /\ pc = "done" => doc = n_files

\* the second document was processed to its summary after the first one's
\* rasterization failed
C5_SecondDocumentAfterFailure ==
    /\ pc = "done" /\ n_files = 2
    /\ SummariesOf(1) = {}
    /\ SummariesOf(2) # {}
    /\ RecordsOf(2) # {}

IsAscending(s) == \A i \in 1..(Len(s) - 1) : s[i] < s[i + 1]

\* C6: every summary written has n_tables equal to the number of records
\* of its doc_id in tables.jsonl, and pages_with_tables is the strictly
\* ascending list of exactly the page_index values of those records.
C6_SummaryMatchesRecords ==
    \A i \in 1..Len(summary_jsonl) :
        LET sm == summary_jsonl[i]
            recs == RecordsOf(sm.doc_id)
        IN /\ sm.n_tables = Cardinality(recs)
           /\ IsAscending(sm.pages_with_tables)
           /\ SeqToSet(sm.pages_with_tables) =
                  {tables_jsonl[j].page_index : j \in recs}

C6_TwoTablesOnOnePage ==
    \E i \in 1..Len(summary_jsonl) :
        /\ summary_jsonl[i].n_tables = 2
        /\ summary_jsonl[i].pages_with_tables = <<0>>

\* C7: two records of one document lie in tables.jsonl in strictly
\* increasing lexicographic order of (page_index, table_index).
C7_RecordsInPageTableOrder ==
    \A i, j \in 1..Len(tables_jsonl) :
        (i < j /\ tables_jsonl[i].doc_id = tables_jsonl[j].doc_id) =>
            \/ tables_jsonl[i].page_index < tables_jsonl[j].page_index
            \/ /\ tables_jsonl[i].page_index = tables_jsonl[j].page_index
               /\ tables_jsonl[i].table_index < tables_jsonl[j].table_index

C7_TwoRecordsOfOnePage ==
    \E i, j \in 1..Len(tables_jsonl) :
        /\ i < j
        /\ tables_jsonl[i].doc_id = tables_jsonl[j].doc_id
        /\ tables_jsonl[i].page_index = tables_jsonl[j].page_index

\* C8: a document whose pages were rasterized has exactly one summary line
\* once its table extraction has returned, no document ever has two, and no
\* record of a document is appended once its summary line is there, also
\* when no table of the document was extracted.
C8_OneSummaryAfterRecords ==
    /\ [](/\ \A d \in 1..MaxDocs : Cardinality(SummariesOf(d)) <= 1
          /\ (pc \in {"doc", "done"} /\ doc >= 1 /\ rasterized = "ok") =>
                 Cardinality(SummariesOf(doc)) = 1
          /\ SummariesOf(doc) # {} => pc \in {"doc", "done"})
    /\ [][tables_jsonl' # tables_jsonl =>
             /\ Len(tables_jsonl') = Len(tables_jsonl) + 1
             /\ \A i \in 1..Len(summary_jsonl') :
                   summary_jsonl'[i].doc_id # Last(tables_jsonl').doc_id]_vars

C8_SummaryOfDocumentWithoutTables ==
    /\ pc = "doc" /\ doc >= 1 /\ rasterized = "ok"
    /\ \E i \in SummariesOf(doc) : summary_jsonl[i].n_tables = 0

\* ============================================== properties: SpecCluster
SameRowClose(row) ==
    \A i, j \in 1..Len(row) : Abs(row[i][2] - row[j][2]) < RowTolerance

\* C9 as stated: a box joins the current row only within the tolerance of
\* the row's anchor, its first placed box, so that any two boxes of a row
\* have top edges less than 20 apart.
C9_AnchorRule ==
    /\ cpc = "sweep" =>
          \A i \in 1..Len(current_row) :
              Abs(current_row[i][2] - current_row[1][2]) < RowTolerance
    /\ \A r \in 1..Len(rows) : SameRowClose(rows[r])

\* C9: in the sweep a box joins the current row if and only if its top
\* edge is less than 20 from the top edge of the box placed last in that
\* row; otherwise the row is closed, sorted by x, and the box starts the
\* next row.
C9_LastBoxRule ==
    [][(cpc = "sweep" /\ k <= Len(cell_boxes) /\ k' = k + 1) =>
          LET b == cell_boxes[k]
              near == Abs(b[2] - current_row[Len(current_row)][2]) < 20
          IN /\ near <=> current_row' = Append(current_row, b)
             /\ near => rows' = rows
             /\ ~near => /\ current_row' = <<b>>
                         /\ Len(rows') = Len(rows) + 1]_vars

\* a row whose first and last placed boxes are 20 or more apart
C9_ChainedRow ==
    /\ cpc = "grid"
    /\ \E r \in 1..Len(rows) : ~SameRowClose(rows[r])

\* C10: two candidate boxes on their own share one row when their top
\* edges are less than 20 apart and make two rows when they are 20 or more
\* apart.
C10_TwoBoxBoundary ==
    (cpc = "grid" /\ Len(cell_boxes) = 2) =>
        LET d == Abs(cell_boxes[1][2] - cell_boxes[2][2])
        IN /\ d < 20 => Len(rows) = 1 /\ Len(rows[1]) = 2
           /\ d >= 20 => Len(rows) = 2 /\ Len(rows[1]) = 1 /\ Len(rows[2]) = 1

C10_ExactlyTwentyApart ==
    /\ cpc = "grid" /\ Len(cell_boxes) = 2
    /\ Abs(cell_boxes[1][2] - cell_boxes[2][2]) = 20
    /\ Len(rows) = 2

\* C11: the grid of a non-empty set of candidate boxes has only non-empty
\* rows; the record made of it has n_rows equal to the number of rows,
\* n_cols equal to the length of the longest row, and cells of the grid's
\* own jagged shape: one text per box, short rows not padded.
C11_GridShape ==
    cpc = "grid" =>
        LET rec == TableRecord(1, 0, 0, rows)
        IN /\ Len(rows) >= 1
           /\ \A r \in 1..Len(rows) : Len(rows[r]) >= 1
           /\ rec.n_rows = Len(rows)
           /\ \A r \in 1..Len(rows) : Len(rows[r]) <= rec.n_cols
           /\ \E r \in 1..Len(rows) : Len(rows[r]) = rec.n_cols
           /\ Len(rec.cells) = Len(rows)
           /\ \A r \in 1..Len(rows) : Len(rec.cells[r]) = Len(rows[r])

\* a ragged grid whose longest row is not its first
C11_RaggedGrid ==
    /\ cpc = "grid"
    /\ Len(rows) = 2
    /\ Len(rows[1]) = 1
    /\ Len(rows[2]) = 2

\* the boxes in another input order
Reordered(boxes, p) == [i \in 1..Len(boxes) |-> boxes[p[i]]]

SameGridInEveryOrder ==
    \A p \in Permutations(1..Len(cell_boxes)) :
        GroupRows(Reordered(cell_boxes, p)) = rows

\* no two different boxes have the same (x, y)
DistinctOrigins ==
    \A i, j \in 1..Len(cell_boxes) :
        cell_boxes[i] # cell_boxes[j] =>
            <<cell_boxes[i][1], cell_boxes[i][2]>> #
                <<cell_boxes[j][1], cell_boxes[j][2]>>

\* C12 as stated: whatever the order in which the same candidate boxes are
\* given, boxes sharing (x, y) and differing in size included, the grid is
\* the same row by row and box by box.
C12_OrderIndependent == cpc = "grid" => SameGridInEveryOrder

\* C12: whatever the order in which the same candidate boxes are given,
\* the grid is the same row by row and box by box, provided no two
\* different boxes share the same (x, y).
C12_OrderIndependentWithoutTies ==
    (cpc = "grid" /\ DistinctOrigins) => SameGridInEveryOrder

\* several boxes with distinct origins that did not arrive in sorted order
C12_GivenOutOfOrder ==
    /\ cpc = "grid"
    /\ DistinctOrigins
    /\ Len(cell_boxes) >= 3
    /\ CellBoxes(contours) # cell_boxes
    /\ Len(rows) >= 2

AtOcrFailingTable ==
    /\ InTableLoop
    /\ CurrentTable.coords
    /\ CellBoxes(CurrentTable.crop.contours) # <<>>
    /\ ~CurrentTable.crop.ocr_ok

\* C13: an OCR call that fails on a cell is not raised to the caller: the
\* table's record is still written, with one text for every box of every
\* row, and the table loop goes on with the next table.
C13_OcrFailureDegrades ==
    [][AtOcrFailingTable =>
          LET rs == GroupRows(CellBoxes(CurrentTable.crop.contours))
          IN /\ Len(tables_jsonl') = Len(tables_jsonl) + 1
             /\ Last(tables_jsonl').doc_id = doc
             /\ Last(tables_jsonl').page_index = page_index
             /\ Last(tables_jsonl').table_index = table_index
             /\ Len(Last(tables_jsonl').cells) = Len(rs)
             /\ \A r \in 1..Len(rs) :
                   Len(Last(tables_jsonl').cells[r]) = Len(rs[r])
             /\ pc' = "table"
             /\ page_index' = page_index
             /\ table_index' = table_index + 1]_vars

RECURSIVE Flatten(_)
Flatten(rs) == IF rs = <<>> THEN <<>> ELSE Head(rs) \o Flatten(Tail(rs))

Occurrences(sq, b) == Cardinality({i \in 1..Len(sq) : sq[i] = b})

\* how often box b is the rectangle of a contour of area 201 or more
LargeOccurrences(b) ==
    Cardinality({i \in 1..Len(contours) :
                    contours[i].box = b /\ contours[i].area >= 201})

AllBoxes == {contours[i].box : i \in 1..Len(contours)}

\* C14: a contour of area 200 or less is in no row of a grid, every contour
\* of area 201 or more is a candidate (the candidates, and the boxes of the
\* grid, are exactly the rectangles of those contours, each as often as it
\* occurs), and when no contour has area above 200 the table ends in the
\* no-cells error and no grid is made.
C14_AreaFilter ==
    /\ cpc \in {"sweep", "grid"} =>
          \A b \in AllBoxes : Occurrences(cell_boxes, b) = LargeOccurrences(b)
    /\ cpc = "grid" =>
          /\ \A b \in AllBoxes :
                Occurrences(Flatten(rows), b) = LargeOccurrences(b)
          /\ \A i \in 1..Len(Flatten(rows)) : Flatten(rows)[i] \in AllBoxes
    /\ cpc = "nocells" =>
          /\ \A i \in 1..Len(contours) : contours[i].area <= 200
          /\ rows = <<>> /\ cell_boxes = <<>>
    /\ (\A i \in 1..Len(contours) : contours[i].area <= 200) =>
          cpc \in {"contours", "nocells"}

\* a grid made of a crop that also held a contour of area exactly 200
C14_NoiseDropped ==
    /\ cpc = "grid"
    /\ \E i \in 1..Len(contours) : contours[i].area = 200
    /\ \E i \in 1..Len(contours) : contours[i].area = 201
    /\ Len(Flatten(rows)) = Len(contours) - 1

\* the table elements that belong to page p when a page_number of 0 or an
\* absent one counts as page 0
TablesCountedOnPage(p) ==
    {i \in 1..Len(elements) :
        /\ Lower(elements[i].category) = "table"
        /\ LayoutPageIndex(elements[i].page_number) = p}

\* C15: a table element whose page_number is 0 or absent belongs to page 0:
\* the table loop of the first page takes it up, like the elements whose
\* page_number is 1, instead of ignoring it.
C15_PageZeroElementProcessed ==
    pc = "table" => Len(page_tables) = Cardinality(TablesCountedOnPage(page_index))

\* the top edge of the box placed first in a row: the sweep goes by
\* ascending y, so it is the least y of the row
FirstPlacedY(row) ==
    CHOOSE y \in {row[i][2] : i \in 1..Len(row)} :
        \A i \in 1..Len(row) : y <= row[i][2]

\* C16: the rows of the grid, concatenated, are a permutation of the list
\* of candidate boxes (every box in exactly one row, exactly once); the
\* rows follow each other by non-decreasing y of their first placed box;
\* within a row the boxes are in non-decreasing x order.
C16_GridIsPermutation ==
    cpc = "grid" =>
        LET given == CellBoxes(contours)
            flat == Flatten(rows)
        IN /\ Len(flat) = Len(given)
           /\ \A i \in 1..Len(given) :
                 Occurrences(flat, given[i]) = Occurrences(given, given[i])
           /\ \A r \in 1..(Len(rows) - 1) :
                 FirstPlacedY(rows[r]) <= FirstPlacedY(rows[r + 1])
           /\ \A r \in 1..Len(rows) :
                 \A i \in 1..(Len(rows[r]) - 1) :
                     rows[r][i][1] <= rows[r][i + 1][1]

\* a grid of several rows, one of several boxes, that rearranges its input
C16_RearrangedGrid ==
    /\ cpc = "grid"
    /\ Len(rows) >= 2
    /\ \E r \in 1..Len(rows) : Len(rows[r]) >= 2
    /\ Flatten(rows) # CellBoxes(contours)

====
